---------------------------- MODULE Spec2Model ----------------------------
(***************************************************************************)
(* A model of beam-mysql-connector: the scoped connection and the client   *)
(* operations (client.py), and the bounded source built on them            *)
(* (source.py): the row estimate, the split planner and the range-tracked  *)
(* reader.                                                                 *)
(*                                                                         *)
(* The batched writer (io.py) is modelled on the same client.              *)
(*                                                                         *)
(* The specifications of the module:                                       *)
(*   Spec        two readers running MySQLSource.read over their trackers  *)
(*   SpecClient  one scoped client operation run to its end                *)
(*   SpecSplit   _build_value followed by MySQLSource.split                *)
(*   SpecSplitAt split called with explicit positions                      *)
(*   SpecCalls   the host's calls on a freshly constructed source          *)
(*   SpecConfig  construction of a MySQLClient from a config mapping       *)
(*   SpecWrite   _WriteToMySQLFn: start_bundle, process, finish_bundle     *)
(***************************************************************************)
EXTENDS Integers, Sequences, FiniteSets

VARIABLES
    \* ---- the query's result set (shared by the readers and the client) ----
    nrows,          \* length of the result sequence; the row at index p is p
    \* ---- MySQLSource.read, one per reader ----
    tracker,        \* the OffsetRangeTracker handed to read
    rpc,            \* position of read's generator body
    gen,            \* the reader's record_generator
    idx,            \* the loop variable i of `for i in range(...)`
    rangeStop,      \* the stop of the range object, fixed when the loop starts
    next_object,    \* the local next_object
    emitted,        \* the rows read has yielded, each with the position claimed for it
    claims,         \* the positions for which try_claim returned True
    refused,        \* the position for which try_claim returned False, or NoPos
    \* ---- one scoped operation of MySQLClient ----
    op,             \* which operation is called
    sess,           \* its generator/connection state
    plan,           \* the planner rows the EXPLAIN query returns
    result,         \* the value the operation returned
    commits,        \* conn.commit() calls
    rollbacks,      \* conn.rollback() calls
    fault,          \* the driver fault the operation met
    \* ---- MySQLSource._build_value and MySQLSource.split ----
    spc,            \* position of the source: new, built, splitting, done
    counts,         \* self._counts
    chunk_size,     \* self._chunk_size
    start_position, \* split's start_position after defaulting
    stop_position,  \* split's stop_position after defaulting
    bundle_start,   \* split's local bundle_start
    bundle_stop,    \* split's local bundle_stop
    lastBundle,     \* the bundle split yielded last
    prevBundle,     \* the bundle split yielded before that
    \* ---- the host's calls on a MySQLSource ----
    call,           \* the last call made on the source and how it ended
    ncalls,         \* how many calls the host has made
    \* ---- construction of a MySQLClient ----
    config,         \* the key set of the config mapping
    cstate,         \* new, constructed or raised
    cerr,           \* the error construction raised
    connects,       \* connection attempts made
    \* ---- _WriteToMySQLFn ----
    wpc,            \* new until start_bundle has run, then ready
    batch_size,     \* self._batch_size
    do_upsert,      \* self.do_upsert
    values_batch,   \* self._values_batch
    wquery,         \* self.query, the statement built last
    fed,            \* the rows process has been given, in order
    flushes,        \* the record_loader calls made: statement, batch, outcome
    wcall           \* the last call on the writer and how it ended

readVars   == <<tracker, rpc, gen, idx, rangeStop, next_object, emitted, claims, refused>>
clientVars == <<op, sess, plan, result, commits, rollbacks, fault>>
splitVars  == <<spc, counts, chunk_size, start_position, stop_position, bundle_start,
                bundle_stop, lastBundle, prevBundle>>
callVars   == <<call, ncalls>>
configVars == <<config, cstate, cerr, connects>>
writeVars  == <<wpc, batch_size, do_upsert, values_batch, wquery, fed, flushes, wcall>>
vars       == <<nrows, readVars, clientVars, splitVars,
                   callVars, configVars, writeVars>>

-----------------------------------------------------------------------------
(* Bounds *)
MaxRows    == 3      \* longest result sequence
MaxPos     == 4      \* largest offset a tracker is built with
MaxPlan    == 2      \* most planner rows of one EXPLAIN
MaxChunk   == 2      \* largest estimate, in units of ChunkDivisor
MaxSplitPos == 5     \* largest explicit position split is called with
MaxBatch   == 2      \* largest batch size of the writer
MaxFeed    == 3      \* most rows fed to the writer in one bundle
MaxFlushes == 3      \* most record_loader calls followed in one bundle
MaxConnects == 2     \* most connections one client is followed through
MaxCalls   == 4      \* most calls the host makes on one source

(* Program constants *)
ChunkDivisor == 10000

NoRow == -1          \* the None that next(record_generator, None) returns
NoPos == -1          \* no position

NoBundle == [start |-> NoPos, stop |-> NoPos]

Readers == {1, 2}

ClientError == "MySQLClientError"
DriverError == "MySQLConnectorError"
NoError     == "none"

-----------------------------------------------------------------------------
(* _MySQLConnection: the scoped connection *)

\* __enter__: connect, mapping a driver error to the client error
ConnEnter(f) ==
    IF f = "connect_fail"
    THEN [conn |-> "none", err |-> ClientError]
    ELSE [conn |-> "open", err |-> NoError]

ConnExitLeak(c) == c

\* __exit__: self.conn.close()
ConnExit(c) == "closed"

-----------------------------------------------------------------------------
(* MySQLClient.record_generator: a generator over the cursor's rows *)

NewGen == [pc |-> "created", conn |-> "none", pos |-> 0, err |-> NoError]

\* the faults the driver can raise at the next resumption of the generator
GenFaults(g) ==
    CASE g.pc = "created"   -> {"none", "connect_fail", "exec_fail", "fetch_fail"}
      [] g.pc = "suspended" -> {"none", "fetch_fail"}
      [] OTHER              -> {"none"}

GenFetchSameRow(g, n, f) ==
    IF f = "fetch_fail"
    THEN [gen |-> [g EXCEPT !.pc = "raised", !.conn = "closed", !.err = ClientError],
          value |-> NoRow, raised |-> TRUE]
    ELSE IF g.pos < n
    THEN [gen |-> [g EXCEPT !.pc = "suspended"],
          value |-> g.pos, raised |-> FALSE]
    ELSE [gen |-> [g EXCEPT !.pc = "finished", !.conn = "closed"],
          value |-> NoRow, raised |-> FALSE]

GenFetchUnmapped(g, n, f) ==
    IF f = "fetch_fail"
    THEN [gen |-> [g EXCEPT !.pc = "raised", !.conn = "closed", !.err = DriverError],
          value |-> NoRow, raised |-> TRUE]
    ELSE IF g.pos < n
    THEN [gen |-> [g EXCEPT !.pc = "suspended", !.pos = g.pos + 1],
          value |-> g.pos, raised |-> FALSE]
    ELSE [gen |-> [g EXCEPT !.pc = "finished", !.conn = "closed"],
          value |-> NoRow, raised |-> FALSE]

\* `for record in cur: yield record`, then cur.close() and the with-block's exit
GenFetch(g, n, f) ==
    IF f = "fetch_fail"
    THEN [gen |-> [g EXCEPT !.pc = "raised", !.conn = ConnExit(g.conn), !.err = ClientError],
          value |-> NoRow, raised |-> TRUE]
    ELSE IF g.pos < n
    THEN [gen |-> [g EXCEPT !.pc = "suspended", !.pos = g.pos + 1],
          value |-> g.pos, raised |-> FALSE]
    ELSE [gen |-> [g EXCEPT !.pc = "finished", !.conn = ConnExit(g.conn)],
          value |-> NoRow, raised |-> FALSE]

\* next(record_generator, None)
GenNext(g, n, f) ==
    CASE g.pc = "created" ->
           LET e == ConnEnter(f) IN
           IF e.err # NoError
           THEN [gen |-> [g EXCEPT !.pc = "raised", !.conn = e.conn, !.err = e.err],
                 value |-> NoRow, raised |-> TRUE]
           ELSE IF f = "exec_fail"
           THEN [gen |-> [g EXCEPT !.pc = "raised", !.conn = ConnExit(e.conn),
                                   !.err = ClientError],
                 value |-> NoRow, raised |-> TRUE]
           ELSE GenFetch([g EXCEPT !.conn = e.conn], n, f)
      [] g.pc = "suspended" -> GenFetch(g, n, f)
      [] OTHER -> [gen |-> g, value |-> NoRow, raised |-> FALSE]

GenCloseSkipsExit(g) ==
    IF g.pc \in {"created", "suspended"} THEN [g EXCEPT !.pc = "closed"] ELSE g

\* The generator is dropped by its only holder: GeneratorExit is thrown at the
\* yield it is suspended at, no except clause catches it, and the with-block exits.
GenClose(g) ==
    CASE g.pc = "suspended" -> [g EXCEPT !.pc = "closed", !.conn = ConnExit(g.conn)]
      [] g.pc = "created"   -> [g EXCEPT !.pc = "closed"]
      [] OTHER              -> g

-----------------------------------------------------------------------------
(* MySQLClient.rough_counts_estimator *)

SelectTypes   == {"PRIMARY", "SIMPLE", "DERIVED"}
PlanRowValues == {0, 42, 500}
PlanRecords   == [select_type : SelectTypes, rows : PlanRowValues]
Plans         == UNION {[1..n -> PlanRecords] : n \in 0..MaxPlan}

\* the truth value Python gives a string used as a condition
Truthy(s) == s # ""

\* record["select_type"] == "PRIMARY" or "SIMPLE"
SelectTypeTest(t) == (t = "PRIMARY") \/ Truthy("SIMPLE")

RECURSIVE TotalFrom(_, _, _)
\* total_number = 0; for record in records: if ...: total_number = record["rows"]
TotalFrom(records, k, total) ==
    IF k > Len(records) THEN total
    ELSE TotalFrom(records, k + 1,
                   IF SelectTypeTest(records[k].select_type)
                   THEN records[k].rows ELSE total)

TotalNumber(records) == TotalFrom(records, 1, 0)

\* The body of the with-block of rough_counts_estimator, entered with connection c:
\* a driver error in execute or fetchall is mapped to the client error; a
\* non-positive total raises the driver's error, outside the try block.
Estimate(c, records, f) ==
    IF f # "none"
    THEN [pc |-> "raised", conn |-> ConnExit(c), err |-> ClientError, result |-> NoRow]
    ELSE IF TotalNumber(records) <= 0
    THEN [pc |-> "raised", conn |-> ConnExit(c), err |-> DriverError, result |-> NoRow]
    ELSE [pc |-> "finished", conn |-> ConnExit(c), err |-> NoError,
          result |-> TotalNumber(records)]

-----------------------------------------------------------------------------
(* MySQLClient.record_loader *)

\* The body of the with-block of record_loader, entered with connection c:
\* execute and commit, or rollback and raise the client error.
Load(c, f) ==
    IF f # "none"
    THEN [pc |-> "raised", conn |-> ConnExit(c), err |-> ClientError,
          commits |-> 0, rollbacks |-> 1]
    ELSE [pc |-> "finished", conn |-> ConnExit(c), err |-> NoError,
          commits |-> 1, rollbacks |-> 0]

-----------------------------------------------------------------------------
(* States in which a part of the program is not running *)

IdleRead ==
    /\ tracker     = [r \in Readers |-> [start |-> 0, stop |-> 0, last |-> NoPos]]
    /\ rpc         = [r \in Readers |-> "unused"]
    /\ gen         = [r \in Readers |-> NewGen]
    /\ idx         = [r \in Readers |-> 0]
    /\ rangeStop   = [r \in Readers |-> 0]
    /\ next_object = [r \in Readers |-> NoRow]
    /\ emitted     = [r \in Readers |-> <<>>]
    /\ claims      = [r \in Readers |-> <<>>]
    /\ refused     = [r \in Readers |-> NoPos]

IdleClient ==
    /\ op        = "unused"
    /\ sess      = NewGen
    /\ plan      = <<>>
    /\ result    = NoRow
    /\ commits   = 0
    /\ rollbacks = 0
    /\ fault     = "none"

IdleSplit ==
    /\ spc           = "unused"
    /\ counts        = 0
    /\ chunk_size    = 0
    /\ start_position = 0
    /\ stop_position = 0
    /\ bundle_start  = 0
    /\ bundle_stop   = 0
    /\ lastBundle    = NoBundle
    /\ prevBundle    = NoBundle

NoCall == [name |-> "none", outcome |-> "none", value |-> 0]

IdleCalls ==
    /\ call   = NoCall
    /\ ncalls = 0

IdleConfig ==
    /\ config   = {}
    /\ cstate   = "unused"
    /\ cerr     = NoError
    /\ connects = 0

NoWriterCall ==
    [name |-> "none", err |-> NoError, flushed |-> FALSE, fault |-> "none",
     commits |-> 0, rollbacks |-> 0, before |-> <<>>]

IdleWrite ==
    /\ wpc          = "unused"
    /\ batch_size   = 0
    /\ do_upsert    = FALSE
    /\ values_batch = <<>>
    /\ wquery       = [cols |-> <<>>, text |-> <<>>]
    /\ fed          = <<>>
    /\ flushes      = <<>>
    /\ wcall        = NoWriterCall

-----------------------------------------------------------------------------
(* SpecClient: one scoped operation of MySQLClient, run to its end *)

ClientInit ==
    /\ op \in {"record_generator", "rough_counts_estimator", "record_loader"}
    /\ nrows \in (IF op = "record_generator" THEN 0..MaxRows ELSE {0})
    /\ plan \in (IF op = "rough_counts_estimator" THEN Plans ELSE {<<>>})
    /\ sess = NewGen
    /\ result = NoRow
    /\ commits = 0
    /\ rollbacks = 0
    /\ fault = "none"
    /\ IdleRead
    /\ IdleSplit
    /\ IdleCalls
    /\ IdleConfig
    /\ IdleWrite

\* the caller pulls the next row of record_generator, until it is exhausted
RecordGeneratorNext ==
    /\ op = "record_generator"
    /\ sess.pc \in {"created", "suspended"}
    /\ \E f \in GenFaults(sess) :
         LET r == GenNext(sess, nrows, f) IN
         /\ sess' = r.gen
         /\ result' = r.value
         /\ fault' = f
    /\ UNCHANGED <<nrows, op, plan, commits, rollbacks, readVars, splitVars,
                   callVars, configVars, writeVars>>

\* `with _MySQLConnection(self.config) as conn:` of the estimator and the loader
ScopedEnter ==
    /\ op \in {"rough_counts_estimator", "record_loader"}
    /\ sess.pc = "created"
    /\ \E f \in {"none", "connect_fail"} :
         LET e == ConnEnter(f) IN
         /\ sess' = [sess EXCEPT !.pc = IF e.err # NoError THEN "raised" ELSE "entered",
                                 !.conn = e.conn, !.err = e.err]
         /\ fault' = f
    /\ UNCHANGED <<nrows, op, plan, result, commits, rollbacks, readVars, splitVars,
                   callVars, configVars, writeVars>>

RoughCountsEstimator ==
    /\ op = "rough_counts_estimator"
    /\ sess.pc = "entered"
    /\ \E f \in {"none", "exec_fail", "fetch_fail"} :
         LET e == Estimate(sess.conn, plan, f) IN
         /\ sess' = [sess EXCEPT !.pc = e.pc, !.conn = e.conn, !.err = e.err]
         /\ result' = e.result
         /\ fault' = f
    /\ UNCHANGED <<nrows, op, plan, commits, rollbacks, readVars, splitVars,
                   callVars, configVars, writeVars>>

RecordLoader ==
    /\ op = "record_loader"
    /\ sess.pc = "entered"
    /\ \E f \in {"none", "exec_fail"} :
         LET e == Load(sess.conn, f) IN
         /\ sess' = [sess EXCEPT !.pc = e.pc, !.conn = e.conn, !.err = e.err]
         /\ commits' = commits + e.commits
         /\ rollbacks' = rollbacks + e.rollbacks
         /\ fault' = f
    /\ UNCHANGED <<nrows, op, plan, result, readVars, splitVars,
                   callVars, configVars, writeVars>>

ClientNext ==
    \/ RecordGeneratorNext
    \/ ScopedEnter
    \/ RoughCountsEstimator
    \/ RecordLoader

SpecClient == ClientInit /\ [][ClientNext]_vars

\* the operation has returned or raised
ClientDone == sess.pc \in {"finished", "raised"}

-----------------------------------------------------------------------------
(* The range tracker: the host's OffsetRangeTracker *)

\* OffsetRangeTracker(start_position, stop_position)
NewTracker(a, b) == [start |-> a, stop |-> b, last |-> NoPos]

\* try_claim(i): refused when i is at or beyond the stop
TryClaim(t, i) == i < t.stop

\* the offsets a dynamic split may move the stop to: inside the range, beyond
\* the position claimed last, and leaving the range non-empty
SplitOffsets(t) == {s \in 0..MaxPos : s > t.last /\ s > t.start /\ s < t.stop}

-----------------------------------------------------------------------------
(* MySQLSource.read *)

ClaimOutcomeIgnoresClaim(obj, claimed) ==
    IF obj = NoRow THEN "return" ELSE "yield"

\* if not next_object or not range_tracker.try_claim(i): return
\* yield next_object
ClaimOutcome(obj, claimed) ==
    IF obj = NoRow \/ ~claimed THEN "return" ELSE "yield"

\* Two readers over consecutive, non-empty offset ranges of the same query
Init ==
    /\ nrows \in 0..MaxRows
    /\ \E a \in 0..MaxPos : \E b \in (a+1)..MaxPos : \E c \in (b+1)..MaxPos :
         tracker = [r \in Readers |-> IF r = 1 THEN NewTracker(a, b) ELSE NewTracker(b, c)]
    /\ rpc         = [r \in Readers |-> "init"]
    /\ gen         = [r \in Readers |-> NewGen]
    /\ idx         = [r \in Readers |-> 0]
    /\ rangeStop   = [r \in Readers |-> 0]
    /\ next_object = [r \in Readers |-> NoRow]
    /\ emitted     = [r \in Readers |-> <<>>]
    /\ claims      = [r \in Readers |-> <<>>]
    /\ refused     = [r \in Readers |-> NoPos]
    /\ IdleClient
    /\ IdleSplit
    /\ IdleCalls
    /\ IdleConfig
    /\ IdleWrite

\* read is entered: the record generator is created (not yet started) and the
\* range of the for loop is built from the tracker's positions at that moment
ReadStart(r) ==
    /\ rpc[r] = "init"
    /\ gen' = [gen EXCEPT ![r] = NewGen]
    /\ idx' = [idx EXCEPT ![r] = tracker[r].start]
    /\ rangeStop' = [rangeStop EXCEPT ![r] = tracker[r].stop]
    /\ rpc' = [rpc EXCEPT ![r] = "for"]
    /\ UNCHANGED <<nrows, tracker, next_object, emitted, claims, refused,
                   clientVars, splitVars,
                   callVars, configVars, writeVars>>

\* the head of the for loop and next(record_generator, None); when the range is
\* used up the loop ends and the while loop follows
ReadFetch(r) ==
    /\ rpc[r] = "for"
    /\ IF idx[r] < rangeStop[r]
       THEN \E f \in GenFaults(gen[r]) :
              LET res == GenNext(gen[r], nrows, f) IN
              /\ gen' = [gen EXCEPT ![r] = res.gen]
              /\ next_object' = [next_object EXCEPT ![r] = res.value]
              /\ rpc' = [rpc EXCEPT ![r] = IF res.raised THEN "raised" ELSE "claim"]
       ELSE /\ rpc' = [rpc EXCEPT ![r] = "drain"]
            /\ UNCHANGED <<gen, next_object>>
    /\ UNCHANGED <<nrows, tracker, idx, rangeStop, emitted, claims, refused,
                   clientVars, splitVars,
                   callVars, configVars, writeVars>>

\* the test of next_object and try_claim(i), then the return or the yield;
\* returning drops the record generator, which closes it
ReadClaim(r) ==
    /\ rpc[r] = "claim"
    /\ LET called  == next_object[r] # NoRow
           claimed == called /\ TryClaim(tracker[r], idx[r])
           outcome == ClaimOutcome(next_object[r], claimed)
       IN
       /\ tracker' = [tracker EXCEPT ![r].last = IF claimed THEN idx[r] ELSE @]
       /\ claims' = [claims EXCEPT ![r] = IF claimed THEN Append(@, idx[r]) ELSE @]
       /\ refused' = [refused EXCEPT ![r] = IF called /\ ~claimed THEN idx[r] ELSE @]
       /\ IF outcome = "return"
          THEN /\ rpc' = [rpc EXCEPT ![r] = "returned"]
               /\ gen' = [gen EXCEPT ![r] = GenClose(@)]
               /\ UNCHANGED <<idx, emitted>>
          ELSE /\ emitted' = [emitted EXCEPT ![r] =
                                 Append(@, [pos |-> idx[r], row |-> next_object[r]])]
               /\ idx' = [idx EXCEPT ![r] = @ + 1]
               /\ rpc' = [rpc EXCEPT ![r] = "for"]
               /\ UNCHANGED gen
    /\ UNCHANGED <<nrows, rangeStop, next_object, clientVars, splitVars,
                   callVars, configVars, writeVars>>

\* while True: yield every further row of the record generator, with no claim
ReadDrain(r) ==
    /\ rpc[r] = "drain"
    /\ \E f \in GenFaults(gen[r]) :
         LET res == GenNext(gen[r], nrows, f) IN
         /\ next_object' = [next_object EXCEPT ![r] = res.value]
         /\ IF res.raised
            THEN /\ rpc' = [rpc EXCEPT ![r] = "raised"]
                 /\ gen' = [gen EXCEPT ![r] = res.gen]
                 /\ UNCHANGED emitted
            ELSE IF res.value # NoRow
            THEN /\ emitted' = [emitted EXCEPT ![r] =
                                   Append(@, [pos |-> NoPos, row |-> res.value])]
                 /\ gen' = [gen EXCEPT ![r] = res.gen]
                 /\ UNCHANGED rpc
            ELSE /\ rpc' = [rpc EXCEPT ![r] = "returned"]
                 /\ gen' = [gen EXCEPT ![r] = GenClose(res.gen)]
                 /\ UNCHANGED emitted
    /\ UNCHANGED <<nrows, tracker, idx, rangeStop, claims, refused,
                   clientVars, splitVars,
                   callVars, configVars, writeVars>>

\* the rebalancing collaborator moves the tracker's stop down
TrackerShrink(r) ==
    /\ \E s \in SplitOffsets(tracker[r]) :
         tracker' = [tracker EXCEPT ![r].stop = s]
    /\ UNCHANGED <<nrows, rpc, gen, idx, rangeStop, next_object, emitted, claims,
                   refused, clientVars, splitVars,
                   callVars, configVars, writeVars>>

Next ==
    \E r \in Readers :
        \/ ReadStart(r)
        \/ ReadFetch(r)
        \/ ReadClaim(r)
        \/ ReadDrain(r)
        \/ TrackerShrink(r)

Spec == Init /\ [][Next]_vars

-----------------------------------------------------------------------------
(* MySQLSource._build_value and MySQLSource.split *)

\* the estimates _build_value can receive: positive row counts on both sides
\* of the chunk divisor and between its multiples
Remainders == {0, 1, 5000, 9999}
Estimates  == {k * ChunkDivisor + r : k \in 0..MaxChunk, r \in Remainders} \ {0}

\* self._chunk_size = self._counts // 10000
ChunkSize(total) == total \div ChunkDivisor

NextBundleStopStuck(stop, chunk) == stop

\* bundle_stop += self._chunk_size
NextBundleStop(stop, chunk) == stop + chunk

SplitInit ==
    /\ nrows = 0
    /\ spc = "new"
    /\ counts = 0
    /\ chunk_size = 0
    /\ start_position = 0
    /\ stop_position = 0
    /\ bundle_start = 0
    /\ bundle_stop = 0
    /\ lastBundle = NoBundle
    /\ prevBundle = NoBundle
    /\ IdleRead
    /\ IdleClient
    /\ IdleCalls
    /\ IdleConfig
    /\ IdleWrite

\* _build_value: the estimator's result becomes _counts, and _chunk_size follows
BuildValue ==
    /\ spc = "new"
    /\ \E total \in Estimates :
         /\ counts' = total
         /\ chunk_size' = ChunkSize(total)
    /\ spc' = "built"
    /\ UNCHANGED <<nrows, start_position, stop_position, bundle_start, bundle_stop,
                   lastBundle, prevBundle, readVars, clientVars,
                   callVars, configVars, writeVars>>

\* split is entered with the default positions: start 0, stop _counts
SplitStart ==
    /\ spc = "built"
    /\ start_position' = 0
    /\ stop_position' = counts
    /\ bundle_start' = 0
    /\ bundle_stop' = chunk_size
    /\ spc' = "splitting"
    /\ UNCHANGED <<nrows, counts, chunk_size, lastBundle, prevBundle,
                   readVars, clientVars,
                   callVars, configVars, writeVars>>

\* one turn of the while loop: yield the bundle, then move both ends
SplitYield ==
    /\ spc = "splitting"
    /\ bundle_start < stop_position
    /\ lastBundle' = [start |-> bundle_start, stop |-> bundle_stop]
    /\ prevBundle' = lastBundle
    /\ bundle_start' = bundle_stop
    /\ bundle_stop' = NextBundleStop(bundle_stop, chunk_size)
    /\ UNCHANGED <<nrows, spc, counts, chunk_size, start_position, stop_position,
                   readVars, clientVars,
                   callVars, configVars, writeVars>>

\* the while loop's condition fails: split is exhausted
SplitDone ==
    /\ spc = "splitting"
    /\ ~(bundle_start < stop_position)
    /\ spc' = "done"
    /\ UNCHANGED <<nrows, counts, chunk_size, start_position, stop_position, bundle_start,
                   bundle_stop, lastBundle, prevBundle, readVars, clientVars,
                   callVars, configVars, writeVars>>

SplitNext ==
    \/ BuildValue
    \/ SplitStart
    \/ SplitYield
    \/ SplitDone

SpecSplit == SplitInit /\ [][SplitNext]_vars

\* split is entered with explicit positions 0 <= start_position < stop_position
\* <= _counts: bundle_start begins at start_position, bundle_stop at _chunk_size
SplitStartAt ==
    /\ spc = "built"
    /\ \E a \in 0..MaxSplitPos : \E b \in (a + 1)..MaxSplitPos :
         /\ b <= counts
         /\ start_position' = a
         /\ stop_position' = b
         /\ bundle_start' = a
    /\ bundle_stop' = chunk_size
    /\ spc' = "splitting"
    /\ UNCHANGED <<nrows, counts, chunk_size, lastBundle, prevBundle,
                   readVars, clientVars, callVars, configVars, writeVars>>

SplitAtNext ==
    \/ BuildValue
    \/ SplitStartAt
    \/ SplitYield
    \/ SplitDone

SpecSplitAt == SplitInit /\ [][SplitAtNext]_vars

-----------------------------------------------------------------------------
(* SpecCalls: the host's calls on a freshly constructed MySQLSource.        *)
(* __init__ sets _query and _config only; _client, _counts and _chunk_size  *)
(* are set by _build_value, which get_range_tracker alone calls.            *)

\* spc is "new" after __init__, "client_set" once _build_value has set _client
\* but the estimator raised, "built" once _counts and _chunk_size are set
HasClient == spc \in {"client_set", "built"}
HasCounts == spc = "built"

\* reading an attribute of the source: its value, or AttributeError when unset
AttrRead(isSet) == IF isSet THEN "returned" ELSE "AttributeError"

CallsInit ==
    /\ nrows = 0
    /\ spc = "new"
    /\ counts = 0
    /\ chunk_size = 0
    /\ start_position = 0
    /\ stop_position = 0
    /\ bundle_start = 0
    /\ bundle_stop = 0
    /\ lastBundle = NoBundle
    /\ prevBundle = NoBundle
    /\ call = NoCall
    /\ ncalls = 0
    /\ IdleRead
    /\ IdleClient
    /\ IdleConfig
    /\ IdleWrite

\* estimate_size(): return self._counts
CallEstimateSize ==
    /\ ncalls < MaxCalls
    /\ ncalls' = ncalls + 1
    /\ call' = [name |-> "estimate_size", outcome |-> AttrRead(HasCounts),
                value |-> IF HasCounts THEN counts ELSE 0]
    /\ UNCHANGED <<nrows, readVars, clientVars, splitVars, configVars, writeVars>>

\* get_range_tracker(None, None): _build_value, then the tracker over
\* [0, _counts); the estimator may raise after _client has been set
CallGetRangeTracker ==
    /\ ncalls < MaxCalls
    /\ ncalls' = ncalls + 1
    /\ \/ /\ \E total \in Estimates :
               /\ counts' = total
               /\ chunk_size' = ChunkSize(total)
               /\ call' = [name |-> "get_range_tracker", outcome |-> "returned",
                           value |-> total]
          /\ spc' = "built"
       \/ /\ spc' = IF spc = "new" THEN "client_set" ELSE spc
          /\ call' = [name |-> "get_range_tracker", outcome |-> "raised", value |-> 0]
          /\ UNCHANGED <<counts, chunk_size>>
    /\ UNCHANGED <<nrows, start_position, stop_position, bundle_start, bundle_stop,
                   lastBundle, prevBundle, readVars, clientVars, configVars, writeVars>>

\* split(desired_bundle_size) up to its first bundle: the default stop reads
\* self._counts, the first bundle_stop reads self._chunk_size
CallSplit ==
    /\ ncalls < MaxCalls
    /\ ncalls' = ncalls + 1
    /\ call' = [name |-> "split", outcome |-> AttrRead(HasCounts),
                value |-> IF HasCounts THEN chunk_size ELSE 0]
    /\ UNCHANGED <<nrows, readVars, clientVars, splitVars, configVars, writeVars>>

\* read(range_tracker) up to self._client.record_generator(self._query)
CallRead ==
    /\ ncalls < MaxCalls
    /\ ncalls' = ncalls + 1
    /\ call' = [name |-> "read", outcome |-> AttrRead(HasClient), value |-> 0]
    /\ UNCHANGED <<nrows, readVars, clientVars, splitVars, configVars, writeVars>>

CallsNext ==
    \/ CallEstimateSize
    \/ CallGetRangeTracker
    \/ CallSplit
    \/ CallRead

SpecCalls == CallsInit /\ [][CallsNext]_vars

-----------------------------------------------------------------------------
(* SpecConfig: construction of a MySQLClient from a config mapping *)

\* required_keys of _validate_config
RequiredKeys == {"host", "port", "database", "user", "password"}

\* the keys a config mapping may hold: the required ones and two others
ConfigKeys == RequiredKeys \cup {"charset", "ssl_ca"}

ValidateConfigAllowsExtra(keys) == RequiredKeys \subseteq keys

\* _validate_config: `if not config.keys() == required_keys: raise`
ValidateConfig(keys) == keys = RequiredKeys

ConfigInit ==
    /\ nrows = 0
    /\ config \in SUBSET ConfigKeys
    /\ cstate = "new"
    /\ cerr = NoError
    /\ connects = 0
    /\ IdleRead
    /\ IdleClient
    /\ IdleSplit
    /\ IdleCalls
    /\ IdleWrite

\* MySQLClient(config): __post_init__ validates the config and does nothing else
Construct ==
    /\ cstate = "new"
    /\ IF ValidateConfig(config)
       THEN cstate' = "constructed" /\ cerr' = NoError
       ELSE cstate' = "raised" /\ cerr' = ClientError
    /\ UNCHANGED <<nrows, config, connects, readVars, clientVars, splitVars,
                   callVars, writeVars>>

\* an operation of the constructed client opens its connection
ConstructedConnect ==
    /\ cstate = "constructed"
    /\ connects < MaxConnects
    /\ connects' = connects + 1
    /\ UNCHANGED <<nrows, config, cstate, cerr, readVars, clientVars, splitVars,
                   callVars, writeVars>>

ConfigNext ==
    \/ Construct
    \/ ConstructedConnect

SpecConfig == ConfigInit /\ [][ConfigNext]_vars

-----------------------------------------------------------------------------
(* _WriteToMySQLFn: the batched writer *)

Database == "db"
Table    == "tbl"

\* the key sequences of the rows fed to the writer
ColumnLists == {<<>>, <<"id">>, <<"id", "name">>, <<"name", "id">>}

\* the k-th row fed in a bundle: its keys in order, and its number k, which
\* tells it from the other rows; the value it holds for column c is <<c, k>>
WRows(k) == [cols : ColumnLists, key : {k}]

\* values.append(value) for column, value in element.items()
RowValues(row) == [i \in 1..Len(row.cols) |-> <<row.cols[i], row.key>>]

RECURSIVE Join(_, _)
\* sep.join(parts), as the sequence of its pieces; each part is a sequence
Join(parts, sep) ==
    IF Len(parts) = 0 THEN <<>>
    ELSE IF Len(parts) = 1 THEN parts[1]
    ELSE parts[1] \o <<sep>> \o Join(Tail(parts), sep)

ValueStrOnePerValuePlusOne(n) == <<"%s">> \o [i \in 1..n |-> ",%s"]

\* '%s' + (',%s' * (len(values)-1))
ValueStr(n) == <<"%s">> \o [i \in 1..(n - 1) |-> ",%s"]

\* ", ".join(columns)
ColumnStr(cols) == Join([i \in 1..Len(cols) |-> <<cols[i]>>], ", ")

\* ", ".join([f"{column} = VALUES({column})" for column in columns])
UpdateStr(cols) ==
    Join([i \in 1..Len(cols) |-> <<cols[i], " = VALUES(", cols[i], ")">>], ", ")

\* the statement process builds for a row's columns, as the pieces of its text
BuildStatement(cols, upsert) ==
    LET insert == <<"INSERT INTO ", Database, ".", Table, " (">> \o ColumnStr(cols)
                  \o <<") VALUES (">> \o ValueStr(Len(cols)) \o <<")">>
    IN  IF upsert
        THEN insert \o <<" ON DUPLICATE KEY UPDATE ">> \o UpdateStr(cols) \o <<";">>
        ELSE insert

\* the parameters record_loader declares besides self, and the arguments the
\* writer passes to it
RecordLoaderParams == 1
FlushArgs          == 2

\* the faults the driver can raise during one record_loader call
LoaderFaults == {"none", "connect_fail", "exec_fail"}

\* self._client.record_loader(query, self._values_batch): the call is bound to
\* record_loader(self, query); when the argument count does not fit, Python
\* raises TypeError before the body runs; otherwise the scoped body runs
LoaderCall(nargs, f) ==
    IF nargs # RecordLoaderParams
    THEN [err |-> "TypeError", commits |-> 0, rollbacks |-> 0]
    ELSE LET e == ConnEnter(f) IN
         IF e.err # NoError
         THEN [err |-> e.err, commits |-> 0, rollbacks |-> 0]
         ELSE LET l == Load(e.conn, f) IN
              [err |-> l.err, commits |-> l.commits, rollbacks |-> l.rollbacks]

\* the keys of the config the writer builds in __init__
WriterConfigKeys == {"host", "database", "user", "password", "port"}

WriteInit ==
    /\ nrows = 0
    /\ wpc = "new"
    /\ batch_size \in 1..MaxBatch
    /\ do_upsert \in BOOLEAN
    /\ values_batch = <<>>
    /\ wquery = [cols |-> <<>>, text |-> <<>>]
    /\ fed = <<>>
    /\ flushes = <<>>
    /\ wcall = NoWriterCall
    /\ IdleRead
    /\ IdleClient
    /\ IdleSplit
    /\ IdleCalls
    /\ IdleConfig

\* start_bundle: the client is constructed and the batch is emptied
StartBundle ==
    /\ ValidateConfig(WriterConfigKeys)
    /\ wpc' = "ready"
    /\ values_batch' = <<>>
    /\ fed' = <<>>
    /\ flushes' = <<>>
    /\ wcall' = [NoWriterCall EXCEPT !.name = "start_bundle"]
    /\ UNCHANGED <<nrows, batch_size, do_upsert, wquery, readVars, clientVars,
                   splitVars, callVars, configVars>>

\* process(element): build the statement from the row's keys, append its
\* values, and flush when the batch has reached the batch size; the batch is
\* cleared only when record_loader returned
Process ==
    /\ wpc = "ready"
    /\ Len(fed) < MaxFeed
    /\ \E row \in WRows(Len(fed) + 1) :
         LET query   == [cols |-> row.cols, text |-> BuildStatement(row.cols, do_upsert)]
             batch   == Append(values_batch, RowValues(row))
             flushing == Len(batch) >= batch_size
         IN
         /\ wquery' = query
         /\ fed' = Append(fed, row)
         /\ \E f \in (IF flushing THEN LoaderFaults ELSE {"none"}) :
              LET out == LoaderCall(FlushArgs, f) IN
              IF flushing
              THEN /\ flushes' = Append(flushes, [stmt |-> query, batch |-> batch,
                                                  fault |-> f, err |-> out.err,
                                                  by |-> "process"])
                   /\ values_batch' = IF out.err = NoError THEN <<>> ELSE batch
                   /\ wcall' = [name |-> "process", err |-> out.err, flushed |-> TRUE,
                                fault |-> f, commits |-> out.commits,
                                rollbacks |-> out.rollbacks, before |-> batch]
              ELSE /\ values_batch' = batch
                   /\ wcall' = [NoWriterCall EXCEPT !.name = "process"]
                   /\ UNCHANGED flushes
    /\ UNCHANGED <<nrows, wpc, batch_size, do_upsert, readVars, clientVars,
                   splitVars, callVars, configVars>>

\* finish_bundle: flush what is left with the statement built last
FinishBundle ==
    /\ wpc = "ready"
    /\ Len(flushes) < MaxFlushes
    /\ LET flushing == Len(values_batch) > 0 IN
       \E f \in (IF flushing THEN LoaderFaults ELSE {"none"}) :
         LET out == LoaderCall(FlushArgs, f) IN
         IF flushing
         THEN /\ flushes' = Append(flushes, [stmt |-> wquery, batch |-> values_batch,
                                             fault |-> f, err |-> out.err,
                                             by |-> "finish_bundle"])
              /\ values_batch' = IF out.err = NoError THEN <<>> ELSE values_batch
              /\ wcall' = [name |-> "finish_bundle", err |-> out.err, flushed |-> TRUE,
                           fault |-> f, commits |-> out.commits,
                           rollbacks |-> out.rollbacks, before |-> values_batch]
         ELSE /\ wcall' = [NoWriterCall EXCEPT !.name = "finish_bundle"]
              /\ UNCHANGED <<flushes, values_batch>>
    /\ UNCHANGED <<nrows, wpc, batch_size, do_upsert, wquery, fed, readVars,
                   clientVars, splitVars, callVars, configVars>>

WriteNext ==
    \/ StartBundle
    \/ Process
    \/ FinishBundle

SpecWrite == WriteInit /\ [][WriteNext]_vars

-----------------------------------------------------------------------------
(* Claims about the client operations, checked under SpecClient *)

\* C6: every scoped client operation releases its connection on every exit
\* path: once the operation has returned or raised, the connection it opened
\* is closed, and a failed connection attempt leaves no connection behind and
\* surfaces as the client error.
C6_ScopedOperationReleasesConnection ==
    ClientDone =>
        IF fault = "connect_fail"
        THEN sess.conn = "none" /\ sess.pc = "raised" /\ sess.err = ClientError
        ELSE sess.conn = "closed"

\* C6 witness: the estimator left through its non-positive-estimate raise
C6_Witness ==
    /\ op = "rough_counts_estimator"
    /\ sess.pc = "raised"
    /\ sess.err = DriverError
    /\ sess.conn = "closed"

\* C9: the estimate returned is the rows value of a planner row whose
\* select_type is PRIMARY or SIMPLE, never that of a DERIVED row.
C9_EstimateFromPrimaryOrSimpleRow ==
    (op = "rough_counts_estimator" /\ sess.pc = "finished") =>
        \E k \in 1..Len(plan) :
            /\ plan[k].select_type \in {"PRIMARY", "SIMPLE"}
            /\ plan[k].rows = result

\* C10: when the planner rows yield a total <= 0 the estimator fails with the
\* client error, the kind used for execution failures, and it never returns a
\* non-positive value.
C10_NonPositiveEstimateIsClientError ==
    (op = "rough_counts_estimator" /\ ClientDone /\ fault = "none") =>
        /\ sess.pc = "finished" => result > 0
        /\ TotalNumber(plan) <= 0 => (sess.pc = "raised" /\ sess.err = ClientError)

-----------------------------------------------------------------------------
(* Claims about the reader, checked under Spec *)

\* C1: once try_claim(i) has returned false for a reader, that reader emits
\* no further row, whatever the collaborator does to the tracker's stop.
C1_NoEmitAfterRefusedClaim ==
    [][\A r \in Readers : refused[r] # NoPos => emitted'[r] = emitted[r]]_vars

\* C1 witness: a reader that emitted rows, had its stop moved below the range
\* it began with, was refused a claim and returned with rows left unread
C1_Witness ==
    \E r \in Readers :
        /\ refused[r] # NoPos
        /\ rpc[r] = "returned"
        /\ Len(emitted[r]) > 0
        /\ tracker[r].stop < rangeStop[r]
        /\ gen[r].pos < nrows

\* C2: every emitted row is preceded by a successful try_claim of its own
\* position: the rows a reader has emitted are as many as the positions it
\* claimed, each row carrying the position claimed for it, so never more than
\* the range the reader began with holds.
C2_EveryEmittedRowIsClaimed ==
    \A r \in Readers :
        /\ Len(emitted[r]) = Len(claims[r])
        /\ \A k \in 1..Len(emitted[r]) : emitted[r][k].pos = claims[r][k]
        /\ rpc[r] \notin {"init", "unused"} =>
               Len(emitted[r]) <= rangeStop[r] - tracker[r].start

\* C3: the row a reader emits for the claimed position p is the row at index p
\* of the query's result sequence.
C3_EmittedRowIsRowAtItsPosition ==
    \A r \in Readers : \A k \in 1..Len(emitted[r]) :
        emitted[r][k].pos # NoPos => emitted[r][k].row = emitted[r][k].pos

\* C4: two readers over disjoint ranges of the same query never both emit the
\* same row of the result sequence.
C4_NoRowEmittedByBothReaders ==
    \A j \in 1..Len(emitted[1]) : \A k \in 1..Len(emitted[2]) :
        emitted[1][j].row # emitted[2][k].row

\* C5: when read has returned after a refused claim, the connection its
\* record generator opened is closed.
C5_RefusedClaimClosesConnection ==
    \A r \in Readers :
        (rpc[r] = "returned" /\ refused[r] # NoPos) => gen[r].conn = "closed"

\* C5 witness: read returned after a refusal that found the record generator
\* suspended at a yield, inside its with-block
C5_Witness ==
    \E r \in Readers :
        /\ rpc[r] = "returned"
        /\ refused[r] # NoPos
        /\ gen[r].pc = "closed"
        /\ gen[r].conn = "closed"

-----------------------------------------------------------------------------
(* Claims about the split planner, checked under SpecSplit *)

\* C7: for every estimate T >= 10000 and the default positions, the bundles
\* split emits start at 0, are each non-empty, each start where the previous
\* one stopped (strictly increasing, gap-free), each start inside [0, T) (so
\* they are finitely many), and when split is exhausted the last one stops at
\* or beyond T: the bundles cover [0, T).
C7_SplitCoversRangeGapFree ==
    (spc \in {"splitting", "done"} /\ counts >= ChunkDivisor) =>
        /\ lastBundle # NoBundle =>
               /\ lastBundle.start < lastBundle.stop
               /\ lastBundle.start < counts
               /\ IF prevBundle = NoBundle
                  THEN lastBundle.start = 0
                  ELSE /\ lastBundle.start = prevBundle.stop
                       /\ prevBundle.start < lastBundle.start
        /\ spc = "done" => (lastBundle # NoBundle /\ lastBundle.stop >= counts)

\* C7 witness: the estimate 25000 split to its end with chunk size 2
C7_Witness ==
    /\ spc = "done"
    /\ counts = 25000
    /\ chunk_size = 2
    /\ prevBundle = [start |-> 24996, stop |-> 24998]
    /\ lastBundle = [start |-> 24998, stop |-> 25000]

\* C8: for every positive estimate, below 10000 too, every bundle split emits
\* was cut with a chunk size of at least 1, is not zero-width, and starts
\* beyond the bundle before it (so the bundles are finitely many).
C8_ChunkSizeClamped ==
    lastBundle # NoBundle =>
        /\ chunk_size >= 1
        /\ lastBundle.start < lastBundle.stop
        /\ prevBundle # NoBundle => prevBundle.start < lastBundle.start

\* C13: the rows one reader emits are an order-preserving, duplicate-free
\* subsequence of the cursor's rows: their indices in the result sequence
\* strictly increase along the emitted sequence, under every tracker behaviour.
C13_EmittedInResultOrder ==
    \A r \in Readers : \A j \in 1..Len(emitted[r]) : \A k \in 1..Len(emitted[r]) :
        j < k => emitted[r][j].row < emitted[r][k].row

\* C13 witness: a reader that emitted three rows, the last of them from the
\* loop that follows the range
C13_Witness ==
    \E r \in Readers :
        /\ Len(emitted[r]) = 3
        /\ emitted[r][3].pos = NoPos
        /\ rpc[r] = "returned"

\* C18: a driver error met while the reader executes the query or fetches a
\* row surfaces from read as the client error and ends the read: read raises
\* exactly when its record generator raised, what it raises is the client
\* error, a read that stopped normally carries no error, and after the error
\* the reader emits no row and does not resume the generator.
C18_DriverErrorAbortsRead ==
    /\ [](\A r \in Readers :
            /\ rpc[r] = "raised" <=> gen[r].pc = "raised"
            /\ rpc[r] = "raised" => gen[r].err = ClientError
            /\ rpc[r] = "returned" => gen[r].err = NoError)
    /\ [][\A r \in Readers :
            rpc[r] = "raised" =>
                /\ emitted'[r] = emitted[r]
                /\ gen'[r] = gen[r]
                /\ rpc'[r] = "raised"]_vars

\* C18 witness: a fetch failed after the reader had emitted rows
C18_Witness ==
    \E r \in Readers :
        /\ rpc[r] = "raised"
        /\ gen[r].err = ClientError
        /\ gen[r].conn = "closed"
        /\ Len(emitted[r]) > 0

-----------------------------------------------------------------------------
(* Claims about split with explicit positions, checked under SpecSplitAt *)

\* C19: for a call of split with 0 <= start_position < stop_position <= T and
\* a chunk size of at least 1, every bundle emitted is non-empty and lies
\* inside [start_position, stop_position), and the first bundle starts at
\* start_position.
C19_BundlesInsideRequestedRange ==
    (spc \in {"splitting", "done"} /\ chunk_size >= 1 /\ lastBundle # NoBundle) =>
        /\ lastBundle.start < lastBundle.stop
        /\ start_position <= lastBundle.start
        /\ lastBundle.stop <= stop_position
        /\ prevBundle = NoBundle => lastBundle.start = start_position

-----------------------------------------------------------------------------
(* Claims about the order of the host's calls, checked under SpecCalls *)

\* C20: on a freshly constructed source no order of estimate_size, split,
\* get_range_tracker and read uses an unset estimate, chunk size or client:
\* no call ends in AttributeError, and estimate_size and split return a value
\* derived from the row estimate.
C20_NoCallUsesUnsetAttribute ==
    /\ call.outcome # "AttributeError"
    /\ call.name = "estimate_size" => (call.value = counts /\ counts \in Estimates)
    /\ call.name = "split" => (call.value = ChunkSize(counts) /\ counts \in Estimates)

-----------------------------------------------------------------------------
(* Claims about client construction, checked under SpecConfig *)

\* C14: construction succeeds exactly when the config has no missing and no
\* extra key; otherwise it fails with the client's configuration error; and
\* no connection has been attempted before construction has succeeded.
C14_ConstructionIffExactKeys ==
    LET missing == {k \in RequiredKeys : k \notin config}
        extra   == {k \in config : k \notin RequiredKeys}
    IN  /\ cstate = "constructed" => (missing = {} /\ extra = {} /\ cerr = NoError)
        /\ cstate = "raised" => ((missing # {} \/ extra # {}) /\ cerr = ClientError)
        /\ cstate \in {"new", "raised"} => connects = 0

\* C14 witness: construction refused a config holding every required key and
\* one more
C14_Witness ==
    /\ cstate = "raised"
    /\ cerr = ClientError
    /\ config = RequiredKeys \cup {"charset"}


-----------------------------------------------------------------------------
(* Claims about the batched writer, checked under SpecWrite *)

RECURSIVE Concat(_)
\* the sequences of a sequence, one after the other
Concat(ss) == IF Len(ss) = 0 THEN <<>> ELSE ss[1] \o Concat(Tail(ss))

\* C15: for a non-empty column list of n columns the statement built is
\* INSERT INTO <db>.<table> (<the columns, comma-separated>) VALUES (<n
\* placeholders>); with upsert it continues with ON DUPLICATE KEY UPDATE and
\* c = VALUES(c) for every column in order, comma-separated; without upsert
\* it holds no ON DUPLICATE KEY UPDATE clause.
C15_StatementShape ==
    wquery.cols # <<>> =>
      LET cols == wquery.cols
          st   == wquery.text
          n    == Len(cols)
          ins  == 6 + 3 * n
      IN  /\ Len(st) >= ins
          /\ SubSeq(st, 1, 5) = <<"INSERT INTO ", Database, ".", Table, " (">>
          /\ \A i \in 1..n : st[4 + 2 * i] = cols[i]
          /\ \A i \in 1..(n - 1) : st[5 + 2 * i] = ", "
          /\ st[5 + 2 * n] = ") VALUES ("
          /\ st[6 + 2 * n] = "%s"
          /\ \A i \in 2..n : st[5 + 2 * n + i] = ",%s"
          /\ st[ins] = ")"
          /\ IF do_upsert
             THEN /\ Len(st) = ins + 5 * n + 1
                  /\ st[ins + 1] = " ON DUPLICATE KEY UPDATE "
                  /\ \A i \in 1..n :
                       SubSeq(st, ins + 5 * i - 3, ins + 5 * i) =
                         <<cols[i], " = VALUES(", cols[i], ")">>
                  /\ \A i \in 1..(n - 1) : st[ins + 5 * i + 1] = ", "
                  /\ st[Len(st)] = ";"
             ELSE /\ Len(st) = ins
                  /\ \A i \in 1..Len(st) : st[i] # " ON DUPLICATE KEY UPDATE "

\* C15 witness: with upsert, the statement built for columns id, name
\* continues with ON DUPLICATE KEY UPDATE id = VALUES(id), name = VALUES(name)
C15_Witness ==
    /\ do_upsert
    /\ wquery.cols = <<"id", "name">>
    /\ SubSeq(wquery.text, 13, Len(wquery.text)) =
         <<" ON DUPLICATE KEY UPDATE ", "id", " = VALUES(", "id", ")", ", ",
           "name", " = VALUES(", "name", ")", ";">>

\* C11: in a bundle without a driver fault, every flush executes; the
\* flushed batches followed by the pending batch are the value-tuples of the
\* rows fed, in order; a flush made by process holds exactly batch_size
\* tuples; the pending batch is empty after a flush and after finish_bundle,
\* and finish_bundle leaves ceil(n / batch_size) flushes behind.
C11_FlushesRoundTrip ==
    (\A i \in 1..Len(flushes) : flushes[i].fault = "none") =>
      /\ \A i \in 1..Len(flushes) : flushes[i].err = NoError
      /\ wcall.err = NoError
      /\ Concat([i \in 1..Len(flushes) |-> flushes[i].batch]) \o values_batch
           = [i \in 1..Len(fed) |-> RowValues(fed[i])]
      /\ \A i \in 1..Len(flushes) :
           flushes[i].by = "process" => Len(flushes[i].batch) = batch_size
      /\ wcall.flushed => values_batch = <<>>
      /\ wcall.name = "finish_bundle" =>
           /\ values_batch = <<>>
           /\ Len(flushes) = (Len(fed) + batch_size - 1) \div batch_size

\* C12: a flush in which the driver fails the execution ends in the client
\* error, with one rollback and no commit in its session, and leaves the
\* pending batch as it was handed to the flush.
C12_ExecutionErrorRollsBack ==
    (wcall.flushed /\ wcall.fault = "exec_fail") =>
      /\ wcall.err = ClientError
      /\ wcall.rollbacks = 1
      /\ wcall.commits = 0
      /\ values_batch = wcall.before

\* C16: the pending batch never holds more than batch_size value-tuples, and
\* holds fewer than batch_size after a process call that returned.
C16_PendingBatchBounded ==
    /\ Len(values_batch) <= batch_size
    /\ (wcall.name = "process" /\ wcall.err = NoError) =>
         Len(values_batch) < batch_size

\* C17: in every call to record_loader, each value-tuple of the batch handed
\* over holds, position by position, the values of the columns of the
\* statement handed over.
C17_FlushedTuplesMatchStatement ==
    \A i \in 1..Len(flushes) :
      \A j \in 1..Len(flushes[i].batch) :
        LET t    == flushes[i].batch[j]
            cols == flushes[i].stmt.cols
        IN  /\ Len(t) = Len(cols)
            /\ \A k \in 1..Len(t) : t[k][1] = cols[k]

=============================================================================
